---- MODULE Spec2Model ----
(***************************************************************************)
(* Model of the LaTeX-subset preview renderer simpleLatexToHtml of the     *)
(* Generator repository (src/unnamed/part_004, lines 135-270).             *)
(*                                                                         *)
(* Text is modelled character by character: a JavaScript string is a TLA+  *)
(* string, positions are 1-based, and every regular expression of the      *)
(* source is an operator that finds the match the JavaScript engine finds  *)
(* (leftmost start, lazy or greedy quantifier as written, a global         *)
(* replace resuming after the end of each match and never rescanning the   *)
(* replacement).  The renderer is a straight-line pipeline; each statement *)
(* of the function is one action and pc is the position in the function.   *)
(*                                                                         *)
(* Two further state machines model the code around the renderer: the      *)
(* retry loop fetchWithExponentialBackoff of src/ai.js, and the document   *)
(* handling of src/app.js and src/firebase.js (the active document, its    *)
(* cache, the editor, the list listener, saves, creation, deletion and     *)
(* requests to the AI), with Firestore and the user as the environment.    *)
(* Each machine has its own next-state relation; the variables of the      *)
(* machines a specification does not run keep their initial values.        *)
(***************************************************************************)
EXTENDS Integers, Sequences, FiniteSets, TLC

VARIABLES
    doc,        \* the input as it was written: a sequence of source pieces
    latex,      \* parameter latex: the pieces joined into one string
    assets,     \* parameter assets: a sequence of [name, data] records
    pc,         \* position in simpleLatexToHtml
    html,       \* local variable html
    titleBlock, \* local variable titleBlock
    result      \* the returned string (or the exception thrown)

VARIABLES
    backoff     \* a call of fetchWithExponentialBackoff: its parameter
                \* retries, its locals i, response and error, the position
                \* at, the value returned, and the log of the attempts made

VARIABLES
    namespaceSealed,        \* whether an assignment to FB.<binding> throws
    variant,                \* the file the app is built from
    userId,                 \* firebase.js: export let userId
    isAuthReady,            \* firebase.js: export let isAuthReady
    currentDocumentId,      \* firebase.js: export let currentDocumentId
    currentDocumentContent, \* firebase.js: export let currentDocumentContent
    latexEditor,            \* DOMElements.latexEditor.value
    preview,                \* the content last handed to UTILS.updatePreview
    documentList,           \* app.js: let documentList
    isAILoading,            \* app.js: let isAILoading
    unsubscribeDocuments,   \* app.js: let unsubscribeDocuments
    firestore,              \* the documents of every user, as the client sees them
    listeners,              \* the onSnapshot listeners that were not unsubscribed
    due,                    \* the listeners with a snapshot still to deliver
    pending,                \* the Firestore writes awaited, oldest first
    requests,               \* the calls of generateLatexWithAI awaited
    clock,                  \* the time new Date() reads, one tick per write
    authChanges,            \* the number of calls of the auth observer
    shown,                  \* history: the document whose text the editor holds
    lastContent             \* history: the content the active document was last
                            \* loaded, created or saved with

rendererVars == <<doc, latex, assets, pc, html, titleBlock, result>>

appVars ==
    <<namespaceSealed, variant, userId, isAuthReady, currentDocumentId,
      currentDocumentContent, latexEditor, preview, documentList, isAILoading,
      unsubscribeDocuments, firestore, listeners, due, pending, requests, clock,
      authChanges, shown, lastContent>>

\* What a step of the renderer leaves alone.
others == <<backoff, appVars>>

vars == <<rendererVars, backoff, appVars>>

(***************************************************************************)
(* String primitives (String.prototype of the JavaScript runtime).         *)
(***************************************************************************)

\* s.substring(i-1, j) with 1-based inclusive positions.
Sub(s, i, j) == IF j < i THEN "" ELSE SubSeq(s, i, j)

\* s.substring(i-1): the rest of s from position i.
From(s, i) == Sub(s, i, Len(s))

\* One character of s.
Ch(s, i) == SubSeq(s, i, i)

\* Whether p occurs in s at position i.
At(s, i, p) ==
    /\ i >= 1
    /\ i + Len(p) - 1 <= Len(s)
    /\ SubSeq(s, i, i + Len(p) - 1) = p

\* The least element of a set of positions, 0 for the empty set.
Least(S) == IF S = {} THEN 0 ELSE CHOOSE i \in S : \A j \in S : i <= j

\* s.indexOf(p, from-1) + 1: the least position >= from where p occurs, 0 if none.
IndexFrom(s, p, from) ==
    Least({i \in from..(Len(s) - Len(p) + 1) : SubSeq(s, i, i + Len(p) - 1) = p})

\* s.includes(p)
Includes(s, p) == IndexFrom(s, p, 1) # 0

\* The lower-case letter of each ASCII capital.
LowerOf ==
    [c \in {"A", "B", "C", "D", "E", "F", "G", "H", "I", "J", "K", "L", "M",
            "N", "O", "P", "Q", "R", "S", "T", "U", "V", "W", "X", "Y", "Z"} |->
        CASE c = "A" -> "a" [] c = "B" -> "b" [] c = "C" -> "c" [] c = "D" -> "d"
          [] c = "E" -> "e" [] c = "F" -> "f" [] c = "G" -> "g" [] c = "H" -> "h"
          [] c = "I" -> "i" [] c = "J" -> "j" [] c = "K" -> "k" [] c = "L" -> "l"
          [] c = "M" -> "m" [] c = "N" -> "n" [] c = "O" -> "o" [] c = "P" -> "p"
          [] c = "Q" -> "q" [] c = "R" -> "r" [] c = "S" -> "s" [] c = "T" -> "t"
          [] c = "U" -> "u" [] c = "V" -> "v" [] c = "W" -> "w" [] c = "X" -> "x"
          [] c = "Y" -> "y" [] c = "Z" -> "z"]

\* Case folding of one character, as the /i flag compares ASCII letters.
LowerChar(c) == IF c \in DOMAIN LowerOf THEN LowerOf[c] ELSE c

\* The case folding of s from position i on.
RECURSIVE LowerFrom(_, _)
LowerFrom(s, i) ==
    IF i > Len(s) THEN "" ELSE LowerChar(Ch(s, i)) \o LowerFrom(s, i + 1)

\* s.toLowerCase() on ASCII letters.
ToLower(s) == LowerFrom(s, 1)

\* Whether the lower-case pattern p occurs in s at position i, ignoring case.
AtCI(s, i, p) ==
    /\ i >= 1
    /\ i + Len(p) - 1 <= Len(s)
    /\ \A k \in 1..Len(p) : LowerChar(Ch(s, i + k - 1)) = Ch(p, k)

\* The least position >= from where p occurs ignoring case, 0 if none.
IndexFromCI(s, p, from) ==
    Least({i \in from..(Len(s) - Len(p) + 1) : AtCI(s, i, p)})

\* Pattern search with or without the /i flag.
Find(s, p, from, ci) ==
    IF ci THEN IndexFromCI(s, p, from) ELSE IndexFrom(s, p, from)

\* The characters String.prototype.trim removes (those a source text holds).
WhiteSpace == {" ", "\t", "\n", "\r", "\f"}

\* The characters the regular-expression dot does not match.
LineTerminators == {"\n", "\r"}

\* s.trim(): s from its first to its last character that is not white space.
Trim(s) ==
    LET ink == {i \in 1..Len(s) : Ch(s, i) \notin WhiteSpace}
    IN  IF ink = {} THEN ""
        ELSE Sub(s, Least(ink), CHOOSE i \in ink : \A j \in ink : j <= i)

\* The least position >= from of a character of the set cs, 0 if none.
IndexOfAny(s, cs, from) == Least({i \in from..Len(s) : Ch(s, i) \in cs})

\* s.replace(/p/g, r) for a literal pattern p: one left-to-right pass.
RECURSIVE ReplaceAll(_, _, _, _)
ReplaceAll(s, p, r, from) ==
    LET i == IndexFrom(s, p, from)
    IN  IF i = 0 THEN From(s, from)
        ELSE Sub(s, from, i - 1) \o r \o ReplaceAll(s, p, r, i + Len(p))

\* s.split(sep): the segments between the occurrences of sep.
RECURSIVE SplitFrom(_, _, _)
SplitFrom(s, sep, from) ==
    LET i == IndexFrom(s, sep, from)
    IN  IF i = 0 THEN <<From(s, from)>>
        ELSE <<Sub(s, from, i - 1)>> \o SplitFrom(s, sep, i + Len(sep))

Split(s, sep) == SplitFrom(s, sep, 1)

\* parts.join('')
RECURSIVE Join(_)
Join(parts) == IF parts = <<>> THEN "" ELSE Head(parts) \o Join(Tail(parts))

\* A string used as a condition: the empty string is falsy.
Truthy(s) == s # ""

(***************************************************************************)
(* Regular-expression matches.  A match is a record; a failed match is the *)
(* null that String.prototype.match returns.  Reading a group of null      *)
(* throws a TypeError, which the model carries as a marker string.         *)
(***************************************************************************)

Null == [found |-> FALSE]

TypeError == "\f[TypeError: Cannot read properties of null]\f"

\* m[1] and m[2]
Group1(m) == IF m.found THEN m.g1 ELSE TypeError
Group2(m) == IF m.found THEN m.g2 ELSE TypeError

\* m[0]
Whole(s, m) == Sub(s, m.index, m.last)

\* The last closing brace of the line that holds position a, 0 if none.
LastBraceOnLine(s, a) ==
    LET n == IndexOfAny(s, LineTerminators, a)
        braces == {k \in a..(IF n = 0 THEN Len(s) ELSE n - 1) : Ch(s, k) = "}"}
    IN  IF braces = {} THEN 0 ELSE CHOOSE k \in braces : \A j \in braces : j <= k

\* The greedy pattern /open(.*)\}/: the group runs to the last closing brace
\* of the line instead of the first.
RECURSIVE MatchCmdGreedy(_, _, _, _)
MatchCmdGreedy(s, open, from, ci) ==
    LET i == Find(s, open, from, ci)
        a == i + Len(open)
        k == LastBraceOnLine(s, a)
    IN  IF i = 0 THEN Null
        ELSE IF k # 0
             THEN [found |-> TRUE, index |-> i, last |-> k, g1 |-> Sub(s, a, k - 1)]
             ELSE MatchCmdGreedy(s, open, i + 1, ci)

\* /open(.*?)\}/ searched from position from: the leftmost occurrence of
\* open that has a closing brace on the same line; the group is the text up
\* to the first closing brace.
RECURSIVE MatchCmd(_, _, _, _)
MatchCmd(s, open, from, ci) ==
    LET i == Find(s, open, from, ci)
        a == i + Len(open)
        k == IndexFrom(s, "}", a)
        n == IndexOfAny(s, LineTerminators, a)
    IN  IF i = 0 THEN Null
        ELSE IF k # 0 /\ (n = 0 \/ n > k)
             THEN [found |-> TRUE, index |-> i, last |-> k, g1 |-> Sub(s, a, k - 1)]
             ELSE MatchCmd(s, open, i + 1, ci)

\* /begin([\s\S]*?)end/ searched from position from: the leftmost begin that
\* has an end after it; the group stops at the first such end.
MatchEnv(s, begin, end, from, ci) ==
    LET b == Find(s, begin, from, ci)
        a == b + Len(begin)
        e == IF b = 0 THEN 0 ELSE Find(s, end, a, ci)
    IN  IF b = 0 \/ e = 0 THEN Null
        ELSE [found |-> TRUE, index |-> b, last |-> e + Len(end) - 1,
              g1 |-> Sub(s, a, e - 1)]

(***************************************************************************)
(* simpleLatexToHtml, src/unnamed/part_004 lines 135-270: the statements   *)
(* of the function as operators on strings.                                *)
(***************************************************************************)

\* assetMap.get(name) after assets.forEach(asset => assetMap.set(asset.name,
\* asset.data)): the data of the last asset of that name, undefined if none.
RECURSIVE AssetMapGet(_, _)
AssetMapGet(as, name) ==
    IF as = <<>> THEN [defined |-> FALSE]
    ELSE IF as[Len(as)].name = name
         THEN [defined |-> TRUE, value |-> as[Len(as)].data]
         ELSE AssetMapGet(SubSeq(as, 1, Len(as) - 1), name)

\* if (base64Data): undefined and the empty string are falsy.
AssetTruthy(v) == v.defined /\ Truthy(v.value)

ErrorFragment ==
    "<p class='text-center text-red-500'>Error: \\begin{document} or \\end{document} not found.</p>"

\* A lenient variant: a source without an end marker has a body up to its end.
MatchDocumentOpenEnded(src) ==
    LET m == MatchEnv(src, "\\begin{document}", "\\end{document}", 1, TRUE)
        b == IndexFromCI(src, "\\begin{document}", 1)
    IN  IF m.found \/ b = 0 THEN m
        ELSE [found |-> TRUE, index |-> b, last |-> Len(src),
              g1 |-> From(src, b + Len("\\begin{document}"))]

\* latex.match(/\\begin\{document\}([\s\S]*?)\\end\{document\}/i)
MatchDocument(src) == MatchEnv(src, "\\begin{document}", "\\end{document}", 1, TRUE)

\* if (contentMatch && contentMatch[1])
BodyFound(contentMatch) == contentMatch.found /\ Truthy(Group1(contentMatch))

\* The title block without the if (titleMatch) guards.
TitleBlockOfUnguarded(src) ==
    LET titleMatch == MatchCmd(src, "\\title{", 1, TRUE)
        authorMatch == MatchCmd(src, "\\author{", 1, TRUE)
        dateMatch == MatchCmd(src, "\\date{", 1, TRUE)
    IN  "<h1>" \o Group1(titleMatch) \o "</h1>"
        \o "<p class=\"text-center mb-1 text-gray-500\">By: " \o Group1(authorMatch) \o "</p>"
        \o "<p class=\"text-center text-sm mb-6 text-gray-400\">" \o Group1(dateMatch) \o "</p>"

\* The title, author and date matches on the full source and the block built
\* of those that matched.
TitleBlockOf(src) ==
    LET titleMatch == MatchCmd(src, "\\title{", 1, TRUE)
        authorMatch == MatchCmd(src, "\\author{", 1, TRUE)
        dateMatch == MatchCmd(src, "\\date{", 1, TRUE)
    IN  (IF titleMatch.found
         THEN "<h1>" \o Group1(titleMatch) \o "</h1>" ELSE "")
        \o (IF authorMatch.found
            THEN "<p class=\"text-center mb-1 text-gray-500\">By: "
                 \o Group1(authorMatch) \o "</p>"
            ELSE "")
        \o (IF dateMatch.found
            THEN "<p class=\"text-center text-sm mb-6 text-gray-400\">"
                 \o Group1(dateMatch) \o "</p>"
            ELSE "")

\* The older behaviour: the first \maketitle is replaced by the title block.
StripMaketitleInsert(h) ==
    LET i == IndexFrom(h, "\\maketitle", 1)
    IN  IF i = 0 THEN h
        ELSE Sub(h, 1, i - 1) \o titleBlock \o From(h, i + Len("\\maketitle"))

\* html.replace(/\\maketitle/g, '')
StripMaketitle(h) == ReplaceAll(h, "\\maketitle", "", 1)

\* The replace without the g flag: only the first match is replaced.
ReplaceCmdFirst(h, open, pre, post, from) ==
    LET m == MatchCmd(h, open, from, FALSE)
    IN  IF ~m.found THEN From(h, from)
        ELSE Sub(h, from, m.index - 1) \o pre \o Group1(m) \o post \o From(h, m.last + 1)

\* h.replace(/open(.*?)\}/g, pre + '$1' + post)
RECURSIVE ReplaceCmd(_, _, _, _, _)
ReplaceCmd(h, open, pre, post, from) ==
    LET m == MatchCmd(h, open, from, FALSE)
    IN  IF ~m.found THEN From(h, from)
        ELSE Sub(h, from, m.index - 1) \o pre \o Group1(m) \o post
             \o ReplaceCmd(h, open, pre, post, m.last + 1)

Sections(h) == ReplaceCmd(h, "\\section{", "<h3>", "</h3>", 1)
Subsections(h) == ReplaceCmd(h, "\\subsection{", "<h4>", "</h4>", 1)
Bold(h) == ReplaceCmd(h, "\\textbf{", "<strong>", "</strong>", 1)
Italic(h) == ReplaceCmd(h, "\\textit{", "<em>", "</em>", 1)

\* html.replace(/\n/g, '<br>')
Newlines(h) == ReplaceAll(h, "\n", "<br>", 1)

\* html.replace(/\$([^\$]+)\$/g, '<code ...>$1</code>'): a dollar sign, one
\* or more characters that are not dollar signs, a dollar sign.
RECURSIVE ReplaceInlineMath(_, _)
ReplaceInlineMath(h, from) ==
    LET i == IndexFrom(h, "$", from)
        j == IF i = 0 THEN 0 ELSE IndexFrom(h, "$", i + 1)
    IN  IF i = 0 \/ j = 0 THEN From(h, from)
        ELSE IF j = i + 1 THEN Sub(h, from, i) \o ReplaceInlineMath(h, i + 1)
        ELSE Sub(h, from, i - 1)
             \o "<code class=\"bg-gray-100 dark:bg-gray-700 px-1 rounded\">"
             \o Sub(h, i + 1, j - 1) \o "</code>"
             \o ReplaceInlineMath(h, j + 1)

InlineMath(h) == ReplaceInlineMath(h, 1)

\* The callback of the equation replace.
EquationHtml(equation) ==
    "<span class=\"math-block\">" \o ReplaceAll(Trim(equation), "\\ ", "", 1) \o "</span>"

RECURSIVE ReplaceEquation(_, _)
ReplaceEquation(h, from) ==
    LET m == MatchEnv(h, "\\begin{equation}", "\\end{equation}", from, FALSE)
    IN  IF ~m.found THEN From(h, from)
        ELSE Sub(h, from, m.index - 1) \o EquationHtml(Group1(m))
             \o ReplaceEquation(h, m.last + 1)

Equations(h) == ReplaceEquation(h, 1)

\* items.map(item => `<li ...>${item.trim().replace(/<br>/g, '')}</li>`).join('')
RECURSIVE ItemsHtml(_)
ItemsHtml(items) ==
    IF items = <<>> THEN ""
    ELSE "<li class=\"list-disc ml-6\">"
         \o ReplaceAll(Trim(Head(items)), "<br>", "", 1) \o "</li>"
         \o ItemsHtml(Tail(items))

\* The callback without slice(1): the segment before the first \item is an
\* entry too.
ItemizeHtmlKeepFirst(listContent) ==
    "<ul class=\"my-2\">" \o ItemsHtml(Split(listContent, "\\item")) \o "</ul>"

\* The callback of the itemize replace: split on \item, slice(1).
ItemizeHtml(listContent) ==
    "<ul class=\"my-2\">" \o ItemsHtml(Tail(Split(listContent, "\\item"))) \o "</ul>"

RECURSIVE ReplaceItemize(_, _)
ReplaceItemize(h, from) ==
    LET m == MatchEnv(h, "\\begin{itemize}", "\\end{itemize}", from, FALSE)
    IN  IF ~m.found THEN From(h, from)
        ELSE Sub(h, from, m.index - 1) \o ItemizeHtml(Group1(m))
             \o ReplaceItemize(h, m.last + 1)

Lists(h) == ReplaceItemize(h, 1)

\* figureContent.match(/\\includegraphics\[.*?\]\{(.*?)\}/i): the command with
\* a bracketed argument, the brackets and the braces closing on the same line.
RECURSIVE MatchGraphicsOpt(_, _)
MatchGraphicsOpt(s, from) ==
    LET i == IndexFromCI(s, "\\includegraphics[", from)
        a == i + Len("\\includegraphics[")
        k == IndexFrom(s, "]{", a)
        c == IF k = 0 THEN 0 ELSE IndexFrom(s, "}", k + 2)
        n == IndexOfAny(s, LineTerminators, a)
    IN  IF i = 0 THEN Null
        ELSE IF c # 0 /\ (n = 0 \/ n > c)
             THEN [found |-> TRUE, index |-> i, last |-> c, g1 |-> Sub(s, k + 2, c - 1)]
             ELSE MatchGraphicsOpt(s, i + 1)

\* ... || figureContent.match(/\\includegraphics\{(.*?)\}/i)
MatchGraphics(figureContent) ==
    LET opt == MatchGraphicsOpt(figureContent, 1)
    IN  IF opt.found THEN opt
        ELSE MatchCmd(figureContent, "\\includegraphics{", 1, TRUE)

\* The image markup of a figure whose asset is looked up by a wrong key (the
\* lookup ignores the case of the file name).
ImageHtmlFolded(figureContent, caption, as) ==
    LET includeGraphicsMatch == MatchGraphics(figureContent)
        fileName == Group1(includeGraphicsMatch)
        base64Data == AssetMapGet(as, ToLower(fileName))
    IN  IF includeGraphicsMatch.found
        THEN IF AssetTruthy(base64Data)
             THEN "<img src=\"" \o base64Data.value \o "\" alt=\"Figure: " \o caption
                  \o "\" class=\"asset-image\" />"
             ELSE "\n                    <div class=\"image-not-found\">\n                        [IMAGE NOT FOUND: "
                  \o fileName
                  \o "]<br>\n                        <span class=\"text-xs font-normal\">Please import this asset or update the LaTeX command.</span>\n                    </div>"
        ELSE "\n                <div class=\"figure-placeholder\">\n                    <p class=\"font-semibold text-sm mb-2\">Figure Placeholder</p>\n                    <p class=\"text-xs text-gray-600\">No \\includegraphics command found.</p>\n                </div>"

\* imageHtml: the image of the asset named by \includegraphics, the marker
\* of a missing asset, or the placeholder of a figure without the command.
ImageHtml(figureContent, caption, as) ==
    LET includeGraphicsMatch == MatchGraphics(figureContent)
        fileName == Group1(includeGraphicsMatch)
        base64Data == AssetMapGet(as, fileName)
    IN  IF includeGraphicsMatch.found
        THEN IF AssetTruthy(base64Data)
             THEN "<img src=\"" \o base64Data.value \o "\" alt=\"Figure: " \o caption
                  \o "\" class=\"asset-image\" />"
             ELSE "\n                    <div class=\"image-not-found\">\n                        [IMAGE NOT FOUND: "
                  \o fileName
                  \o "]<br>\n                        <span class=\"text-xs font-normal\">Please import this asset or update the LaTeX command.</span>\n                    </div>"
        ELSE "\n                <div class=\"figure-placeholder\">\n                    <p class=\"font-semibold text-sm mb-2\">Figure Placeholder</p>\n                    <p class=\"text-xs text-gray-600\">No \\includegraphics command found.</p>\n                </div>"

\* The callback of the figure replace.
FigureHtml(figureContent, as) ==
    LET captionMatch == MatchCmd(figureContent, "\\caption{", 1, TRUE)
        caption == IF captionMatch.found THEN Group1(captionMatch)
                   ELSE "Figure Caption Missing"
    IN  "\n            <div class=\"my-4\">\n                "
        \o ImageHtml(figureContent, caption, as)
        \o "\n                <p class=\"figure-caption text-center\">Figure: "
        \o caption
        \o "</p>\n            </div>\n        "

RECURSIVE ReplaceFigure(_, _, _)
ReplaceFigure(h, as, from) ==
    LET m == MatchEnv(h, "\\begin{figure}", "\\end{figure}", from, FALSE)
    IN  IF ~m.found THEN From(h, from)
        ELSE Sub(h, from, m.index - 1) \o FigureHtml(Group1(m), as)
             \o ReplaceFigure(h, as, m.last + 1)

Figures(h, as) == ReplaceFigure(h, as, 1)

\* The characters of a column specification, [cl\|].
ColSpecChars == {"c", "l", "|"}

\* The end of the longest run of column-specification characters from a:
\* the position of the first character that is not one.
SkipColSpec(s, a) ==
    LET other == {i \in a..Len(s) : Ch(s, i) \notin ColSpecChars}
    IN  IF other = {} THEN Len(s) + 1 ELSE Least(other)

\* /\\begin\{tabular\}\{([cl\|]*)\}([\s\S]*?)\\end\{tabular\}/ from position
\* from: g1 is the column specification, g2 the table content.
RECURSIVE MatchTabular(_, _)
MatchTabular(s, from) ==
    LET b == IndexFrom(s, "\\begin{tabular}{", from)
        a == b + Len("\\begin{tabular}{")
        k == SkipColSpec(s, a)
        e == IndexFrom(s, "\\end{tabular}", k + 1)
    IN  IF b = 0 THEN Null
        ELSE IF At(s, k, "}") /\ e # 0
             THEN [found |-> TRUE, index |-> b, last |-> e + Len("\\end{tabular}") - 1,
                   g1 |-> Sub(s, a, k - 1), g2 |-> Sub(s, k + 1, e - 1)]
             ELSE MatchTabular(s, b + 1)

\* rows.filter(row => row.trim())
RECURSIVE FilterRows(_)
FilterRows(rows) ==
    IF rows = <<>> THEN <<>>
    ELSE (IF Truthy(Trim(Head(rows))) THEN <<Head(rows)>> ELSE <<>>)
         \o FilterRows(Tail(rows))

\* cell.replace(/\\(top|mid|bottom)rule/g, ''): the leftmost of the three
\* commands is removed, then the search resumes after it.
RECURSIVE StripRules(_, _)
StripRules(cell, from) ==
    LET t == IndexFrom(cell, "\\toprule", from)
        m == IndexFrom(cell, "\\midrule", from)
        b == IndexFrom(cell, "\\bottomrule", from)
        hits == {t, m, b} \ {0}
        i == CHOOSE x \in hits : \A y \in hits : x <= y
        n == IF i = t THEN Len("\\toprule")
             ELSE IF i = m THEN Len("\\midrule") ELSE Len("\\bottomrule")
    IN  IF hits = {} THEN From(cell, from)
        ELSE Sub(cell, from, i - 1) \o StripRules(cell, i + n)

\* row.split('&').map(cell => `<${rowTag}>${cleanedCell}</${rowTag}>`).join('')
RECURSIVE CellsHtml(_, _)
CellsHtml(cells, rowTag) ==
    IF cells = <<>> THEN ""
    ELSE "<" \o rowTag \o ">" \o Trim(StripRules(Head(cells), 1)) \o "</" \o rowTag \o ">"
         \o CellsHtml(Tail(cells), rowTag)

\* The test that skips a row: any rule command in it, or nothing but white space.
RowSkipped(row) ==
    \/ Includes(row, "\\toprule")
    \/ Includes(row, "\\midrule")
    \/ Includes(row, "\\bottomrule")
    \/ Trim(row) = ""

\* rows.forEach(...): the header row and the data rows appended to tableHtml.
RECURSIVE RowsHtml(_, _)
RowsHtml(rows, inHeader) ==
    IF rows = <<>> THEN ""
    ELSE IF RowSkipped(Head(rows)) THEN RowsHtml(Tail(rows), inHeader)
    ELSE LET cellHtml == CellsHtml(Split(Head(rows), "&"), IF inHeader THEN "th" ELSE "td")
         IN  IF inHeader
             THEN "<thead><tr>" \o cellHtml \o "</tr></thead><tbody>"
                  \o RowsHtml(Tail(rows), FALSE)
             ELSE "<tr>" \o cellHtml \o "</tr>" \o RowsHtml(Tail(rows), FALSE)

\* latex.substring(latex.indexOf(match) + match.length).match(/\\caption\{(.*?)\}/i)
\* indexOf is -1 when the matched text does not occur in the original source.
TableCaptionMatch(src, match) ==
    MatchCmd(From(src, IndexFrom(src, match, 1) + Len(match)), "\\caption{", 1, TRUE)

\* The callback of the tabular replace.
TableHtml(match, tableContent, src) ==
    LET rows == FilterRows(Split(Trim(tableContent), "\\\\"))
        captionMatch == TableCaptionMatch(src, match)
    IN  "<table>" \o RowsHtml(rows, TRUE) \o "</tbody></table>"
        \o (IF captionMatch.found
            THEN "<caption>Table: " \o Group1(captionMatch) \o "</caption>"
            ELSE "")

RECURSIVE ReplaceTabular(_, _, _)
ReplaceTabular(h, src, from) ==
    LET m == MatchTabular(h, from)
    IN  IF ~m.found THEN From(h, from)
        ELSE Sub(h, from, m.index - 1) \o TableHtml(Whole(h, m), Group2(m), src)
             \o ReplaceTabular(h, src, m.last + 1)

Tables(h, src) == ReplaceTabular(h, src, 1)

\* A cleanup that halves every pair of breaks.
CleanupPairs(h) == ReplaceAll(h, "<br><br>", "<br>", 1)

\* html.replace(/<br><br><br>/g, '<br><br>')
Cleanup(h) == ReplaceAll(h, "<br><br><br>", "<br><br>", 1)

(***************************************************************************)
(* The first statements of the other variants of simpleLatexToHtml in the  *)
(* repository: what each returns when it finds no body, "" when it goes on.*)
(***************************************************************************)

\* src/utils.js
ErrorFragmentUtils ==
    "<p class='text-center text-red-500'>Error: \\begin{document} or \\end{document} not found.</p>"

ErrorReturnUtils(src) ==
    IF BodyFound(MatchDocument(src)) THEN "" ELSE ErrorFragmentUtils

\* src/unnamed/part_003: if (!content) return ...
ErrorFragment003 ==
    "<p class='text-center text-red-400 font-bold p-10'>Error: \\begin{document} or \\end{document} not found.</p>"

ErrorReturn003(src) ==
    IF MatchDocument(src).found THEN "" ELSE ErrorFragment003

\* src/unnamed/part_005
ErrorFragment005 ==
    "<p class='text-center text-red-500'>Error: \\begin{document} or \\end{document} not found.</p>"

ErrorReturn005(src) ==
    IF BodyFound(MatchDocument(src)) THEN "" ELSE ErrorFragment005

(***************************************************************************)
(* The function as a state machine: one action per statement.              *)
(***************************************************************************)

\* The statements of simpleLatexToHtml in the order of the function body.
Statements ==
    <<"extract", "title", "maketitle", "section", "subsection", "bold", "italic",
      "newline", "inlinemath", "equation", "itemize", "figure", "tabular",
      "cleanup", "return", "done">>

\* The position of statement p in the function.
Rank(p) == CHOOSE i \in 1..Len(Statements) : Statements[i] = p

\* A cleanup that is repeated while the text holds two breaks in a row.
NextPcRepeat(p) ==
    IF p = "cleanup" /\ Includes(html, "<br><br>") THEN "cleanup"
    ELSE Statements[Rank(p) + 1]

\* Control falls through from each statement to the one written after it.
NextPc(p) == Statements[Rank(p) + 1]

\* A statement that assigns v to html: a TypeError raised while v was
\* computed leaves the function instead.
Assign(v) ==
    IF Includes(v, TypeError)
    THEN /\ pc' = "thrown"
         /\ result' = TypeError
         /\ UNCHANGED html
    ELSE /\ pc' = NextPc(pc)
         /\ html' = v
         /\ UNCHANGED result

\* Lines 142-144: the body between the document markers becomes html.
ExtractBody ==
    /\ pc = "extract"
    /\ LET contentMatch == MatchDocument(latex)
       IN  /\ BodyFound(contentMatch)
           /\ Assign(Group1(contentMatch))
    /\ UNCHANGED <<others, doc, latex, assets, titleBlock>>

\* Lines 141, 145-146: without a body the error fragment is returned.
ReturnError ==
    /\ pc = "extract"
    /\ ~BodyFound(MatchDocument(latex))
    /\ pc' = "done"
    /\ result' = ErrorFragment
    /\ UNCHANGED <<others, doc, latex, assets, html, titleBlock>>

\* Lines 150-157.
BuildTitleBlock ==
    /\ pc = "title"
    /\ LET block == TitleBlockOf(latex)
       IN  IF Includes(block, TypeError)
           THEN pc' = "thrown" /\ result' = TypeError /\ UNCHANGED titleBlock
           ELSE pc' = NextPc(pc) /\ titleBlock' = block /\ UNCHANGED result
    /\ UNCHANGED <<others, doc, latex, assets, html>>

\* Line 160.
RemoveMaketitle ==
    /\ pc = "maketitle"
    /\ Assign(StripMaketitle(html))
    /\ UNCHANGED <<others, doc, latex, assets, titleBlock>>

\* Line 164.
ReplaceSections ==
    /\ pc = "section"
    /\ Assign(Sections(html))
    /\ UNCHANGED <<others, doc, latex, assets, titleBlock>>

\* Line 165.
ReplaceSubsections ==
    /\ pc = "subsection"
    /\ Assign(Subsections(html))
    /\ UNCHANGED <<others, doc, latex, assets, titleBlock>>

\* Line 166.
ReplaceBold ==
    /\ pc = "bold"
    /\ Assign(Bold(html))
    /\ UNCHANGED <<others, doc, latex, assets, titleBlock>>

\* Line 167.
ReplaceItalic ==
    /\ pc = "italic"
    /\ Assign(Italic(html))
    /\ UNCHANGED <<others, doc, latex, assets, titleBlock>>

\* Line 168.
ReplaceNewlines ==
    /\ pc = "newline"
    /\ Assign(Newlines(html))
    /\ UNCHANGED <<others, doc, latex, assets, titleBlock>>

\* Line 171.
ReplaceInlineMaths ==
    /\ pc = "inlinemath"
    /\ Assign(InlineMath(html))
    /\ UNCHANGED <<others, doc, latex, assets, titleBlock>>

\* Lines 172-174.
ReplaceEquations ==
    /\ pc = "equation"
    /\ Assign(Equations(html))
    /\ UNCHANGED <<others, doc, latex, assets, titleBlock>>

\* Lines 177-182.
ReplaceLists ==
    /\ pc = "itemize"
    /\ Assign(Lists(html))
    /\ UNCHANGED <<others, doc, latex, assets, titleBlock>>

\* Lines 186-223.
ReplaceFigures ==
    /\ pc = "figure"
    /\ Assign(Figures(html, assets))
    /\ UNCHANGED <<others, doc, latex, assets, titleBlock>>

\* Lines 228-264.
ReplaceTables ==
    /\ pc = "tabular"
    /\ Assign(Tables(html, latex))
    /\ UNCHANGED <<others, doc, latex, assets, titleBlock>>

\* Line 267.
CollapseBreaks ==
    /\ pc = "cleanup"
    /\ Assign(Cleanup(html))
    /\ UNCHANGED <<others, doc, latex, assets, titleBlock>>

\* Line 269.
ReturnHtml ==
    /\ pc = "return"
    /\ pc' = NextPc(pc)
    /\ result' = titleBlock \o html
    /\ UNCHANGED <<others, doc, latex, assets, html, titleBlock>>

Next ==
    \/ ExtractBody
    \/ ReturnError
    \/ BuildTitleBlock
    \/ RemoveMaketitle
    \/ ReplaceSections
    \/ ReplaceSubsections
    \/ ReplaceBold
    \/ ReplaceItalic
    \/ ReplaceNewlines
    \/ ReplaceInlineMaths
    \/ ReplaceEquations
    \/ ReplaceLists
    \/ ReplaceFigures
    \/ ReplaceTables
    \/ CollapseBreaks
    \/ ReturnHtml

\* Lines 160-267: what the statement at p assigns to html, h being its value
\* before, src the source and as the assets.
StatementValue(p, h, src, as) ==
    CASE p = "maketitle" -> StripMaketitle(h)
      [] p = "section" -> Sections(h)
      [] p = "subsection" -> Subsections(h)
      [] p = "bold" -> Bold(h)
      [] p = "italic" -> Italic(h)
      [] p = "newline" -> Newlines(h)
      [] p = "inlinemath" -> InlineMath(h)
      [] p = "equation" -> Equations(h)
      [] p = "itemize" -> Lists(h)
      [] p = "figure" -> Figures(h, as)
      [] p = "tabular" -> Tables(h, src)
      [] p = "cleanup" -> Cleanup(h)

\* The statements from p to the return, run on h.
RECURSIVE Run(_, _, _, _)
Run(p, h, src, as) ==
    IF p = "return" THEN h
    ELSE LET v == StatementValue(p, h, src, as)
         IN  IF Includes(v, TypeError) THEN TypeError
             ELSE Run(NextPc(p), v, src, as)

\* Lines 135-270: simpleLatexToHtml(src, as) as one value.
Render(src, as) ==
    LET contentMatch == MatchDocument(src)
    IN  IF ~BodyFound(contentMatch) THEN ErrorFragment
        ELSE LET block == TitleBlockOf(src)
                 h == Run("maketitle", Group1(contentMatch), src, as)
             IN  IF Includes(block, TypeError) \/ Includes(h, TypeError)
                 THEN TypeError
                 ELSE block \o h

(***************************************************************************)
(* Inputs.  A source is written as a sequence of pieces (commands, text,   *)
(* line breaks) and handed to the function as their concatenation.         *)
(***************************************************************************)

\* All sequences over S of length at most n.
SeqsUpTo(S, n) == UNION {[1..k -> S] : k \in 0..n}

BeginDoc == "\\begin{document}"
EndDoc == "\\end{document}"

\* JavaScript's null.
JsNull == "null"

\* No response: the value of response before the first fetch resolves, and
\* the undefined a function returns by running off its end.
NoResponse == [status |-> 0, ok |-> FALSE]

\* No error was caught.
NoError == [attempt |-> 0, of |-> "none"]

\* No call of fetchWithExponentialBackoff is under way.
NoCall ==
    [retries |-> 0, i |-> 0, at |-> "idle", response |-> NoResponse,
     error |-> NoError, returned |-> NoResponse, log |-> <<>>]

MaxWrites == 3

\* The ids doc() generates for new documents, one for every tick of the
\* clock, and the uids of the users.
DocIds == {"d" \o ToString(k) : k \in 1..MaxWrites}
Users == {"u1", "u2"}

\* A document that does not exist.
Absent == [exists |-> FALSE, content |-> "", updatedAt |-> 0]

\* The page as it is loaded, before the auth observer is called: the
\* module-level state as declared (firebase.js 36-41, app.js 11-13), an empty
\* editor and no documents.
PageLoaded ==
    /\ userId = JsNull
    /\ isAuthReady = FALSE
    /\ currentDocumentId = JsNull
    /\ currentDocumentContent = ""
    /\ latexEditor = ""
    /\ preview = ""
    /\ documentList = <<>>
    /\ isAILoading = FALSE
    /\ unsubscribeDocuments = JsNull
    /\ firestore = [k \in Users \X DocIds |-> Absent]
    /\ listeners = {}
    /\ due = {}
    /\ pending = <<>>
    /\ requests = <<>>
    /\ clock = 0
    /\ authChanges = 0
    /\ shown = JsNull
    /\ lastContent = ""

\* The renderer runs alone: no call of the retry loop, and the page of
\* src/app.js as loaded in a browser.
RendererAlone ==
    /\ backoff = NoCall
    /\ namespaceSealed = TRUE
    /\ variant = "app.js"
    /\ PageLoaded

\* The call simpleLatexToHtml(Join(d), a).
Call(d, a) ==
    /\ doc = d
    /\ latex = Join(d)
    /\ assets = a
    /\ pc = "extract"
    /\ html = ""
    /\ titleBlock = ""
    /\ result = ""
    /\ RendererAlone

\* No call of the renderer is under way.
NoRender ==
    /\ doc = <<>>
    /\ latex = ""
    /\ assets = <<>>
    /\ pc = "done"
    /\ html = ""
    /\ titleBlock = ""
    /\ result = ""

MaxShellPieces == 4

\* Document markers in both spellings, text, a blank line and \maketitle.
ShellPieces ==
    {BeginDoc, "\\BEGIN{Document}", EndDoc, "\\End{DOCUMENT}", "x", "\n\n"}

InitShell ==
    \E d \in SeqsUpTo(ShellPieces, MaxShellPieces),
       a \in {<<>>, <<[name |-> "pic.png", data |-> "data:X"]>>} : Call(d, a)

Spec == InitShell /\ [][Next]_vars

MaxBreakPieces == 4

\* Sources of markers, text and runs of line breaks.
BreakPieces == {BeginDoc, EndDoc, "x", "\n\n"}

InitBreaks == \E d \in SeqsUpTo(BreakPieces, MaxBreakPieces) : Call(d, <<>>)

\* The statements run one after another to the return: the function is
\* synchronous, nothing else is scheduled between two of them.
FairSpec == InitBreaks /\ [][Next]_vars /\ WF_vars(Next)

MaxMetaPieces == 3

\* Declarations of the preamble: two titles (the second in another spelling
\* of the command), an author, a date, and a title whose argument runs over
\* a line break.
MetaPieces == {"\\title{T}", "\\Title{U}", "\\author{A}", "\\date{D}", "\\title{W\nX}"}

MetaBodies ==
    { <<"x">>,
      <<"\\maketitle", "x">>,
      <<"x", "\\maketitle", "\n", "\\maketitle", "y">>,
      <<"\\title{B}", "x">> }

MetaPosts == { <<>>, <<"\\date{E}">> }

\* A preamble, a body between the markers and the text after the end
\* marker; a few sources lack the end marker.
MetaDocs ==
    {pre \o <<BeginDoc>> \o body \o <<EndDoc>> \o post :
        pre \in SeqsUpTo(MetaPieces, MaxMetaPieces), body \in MetaBodies, post \in MetaPosts}
    \cup {pre \o <<BeginDoc, "x">> : pre \in SeqsUpTo(MetaPieces, 1)}

InitMeta == \E d \in MetaDocs : Call(d, <<>>)

SpecMeta == InitMeta /\ [][Next]_vars

MaxFigures == 2

\* The \includegraphics of a figure: none, plain, with a bracketed size, and
\* a name that differs from pic.png in the case of one letter.
GraphicsPieces ==
    {"\\includegraphics{pic.png}", "\\includegraphics[width=2cm]{pic.png}",
     "\\includegraphics{Pic.png}"}

\* A figure environment: the graphics command and the caption are optional.
FigureKinds ==
    {<<"\\begin{figure}", "\n">> \o g \o c \o <<"\\end{figure}">> :
        g \in {<<>>} \cup {<<x>> : x \in GraphicsPieces},
        c \in {<<>>, <<"\\caption{Cap}">>}}

\* Up to MaxFigures figures, each followed by a line of text.
RECURSIVE FigureBodies(_)
FigureBodies(n) ==
    IF n = 0 THEN {<<>>}
    ELSE FigureBodies(n - 1)
         \cup {b \o f \o <<"t", "\n">> : b \in FigureBodies(n - 1), f \in FigureKinds}

FigureAssetLists ==
    { <<>>,
      <<[name |-> "pic.png", data |-> "data:X"]>>,
      <<[name |-> "Pic.png", data |-> "data:Z"], [name |-> "pic.png", data |-> "data:X"]>> }

FigureDocs ==
    {<<BeginDoc>> \o b \o <<EndDoc>> : b \in FigureBodies(MaxFigures)}
    \cup {<<BeginDoc>> \o f : f \in FigureKinds}

InitFigure == \E d \in FigureDocs, a \in FigureAssetLists : Call(d, a)

SpecFigure == InitFigure /\ [][Next]_vars

MaxRows == 3

BeginTabular == "\\begin{tabular}{lc}"
EndTabular == "\\end{tabular}"
RowSep == "\\\\"

\* The rows of a table: three rows of cells, a rule on a row of its own, and
\* a rule that shares its row with the header cells.
RowKinds == {"h&i", "a&b", "c", "\\midrule", "\\toprule\nh&i"}

\* compact: the rows separated by \\ on one line; lines: every row ended by
\* \\ and a line break.
RECURSIVE TableCompact(_)
TableCompact(rows) ==
    IF Len(rows) <= 1 THEN rows
    ELSE <<Head(rows), RowSep>> \o TableCompact(Tail(rows))

RECURSIVE TableLines(_)
TableLines(rows) ==
    IF rows = <<>> THEN <<>>
    ELSE <<Head(rows), RowSep, "\n">> \o TableLines(Tail(rows))

TableBodies ==
    {<<BeginTabular>> \o TableCompact(rows) \o <<EndTabular>> :
        rows \in SeqsUpTo(RowKinds, MaxRows)}
    \cup {<<BeginTabular, "\n">> \o TableLines(rows) \o <<EndTabular>> :
        rows \in SeqsUpTo(RowKinds, MaxRows)}

TableDocs ==
    {<<BeginDoc>> \o b \o <<EndDoc>> : b \in TableBodies}
    \cup {<<BeginDoc, BeginTabular, "a&b", EndTabular>>}

InitTable == \E d \in TableDocs : Call(d, <<>>)

SpecTable == InitTable /\ [][Next]_vars

MaxBodyPieces == 3

\* Bodies of whole constructs, an environment opener without its closer,
\* text and line breaks.
ConstructPieces ==
    {"\\section{S}", "\\textbf{b}", "$m$", "\\begin{equation}\ne\n\\end{equation}",
     "\\begin{itemize}\n\\item p\n\\item q\n\\end{itemize}", "\\begin{equation}",
     "x", "\n"}

BodyDocs ==
    {<<BeginDoc>> \o b \o <<EndDoc>> : b \in SeqsUpTo(ConstructPieces, MaxBodyPieces)}
    \cup {<<BeginDoc, "x">>}

InitBody == \E d \in BodyDocs : Call(d, <<>>)

MaxCaptionPieces == 3

\* Tables on one line and on two lines, captions, and a line of text.
CaptionPieces ==
    {"\\caption{K}", "\\caption{L}",
     "\\begin{tabular}{lc}a&b\\end{tabular}",
     "\\begin{tabular}{lc}\na&b\\end{tabular}",
     "Lorem ipsum dolor sit amet."}

CaptionDocs ==
    {<<BeginDoc>> \o b \o <<EndDoc>> : b \in SeqsUpTo(CaptionPieces, MaxCaptionPieces)}

InitCaption == \E d \in CaptionDocs : Call(d, <<>>)

SpecCaption == InitCaption /\ [][Next]_vars

MaxItems == 3

\* The entries of a list: one word, two words, and two lines.
ItemKinds == {"\\item p", "\\item q r", "\\item s\nt"}

\* What stands between \begin{itemize} and the first \item.
ItemLeads == {<<>>, <<"\n">>, <<"z", "\n">>}

\* compact: the entries one after another; lines: a line break after each.
RECURSIVE ItemLines(_)
ItemLines(items) ==
    IF items = <<>> THEN <<>>
    ELSE <<Head(items), "\n">> \o ItemLines(Tail(items))

ListBodies ==
    {<<"\\begin{itemize}">> \o lead \o items \o <<"\\end{itemize}", "w">> :
        lead \in ItemLeads, items \in SeqsUpTo(ItemKinds, MaxItems)}
    \cup {<<"\\begin{itemize}">> \o lead \o ItemLines(items) \o <<"\\end{itemize}", "w">> :
        lead \in ItemLeads, items \in SeqsUpTo(ItemKinds, MaxItems)}

ListDocs == {<<BeginDoc>> \o b \o <<EndDoc>> : b \in ListBodies} \cup {<<"\\item p">>}

InitList == \E d \in ListDocs : Call(d, <<>>)

SpecList == InitList /\ [][Next]_vars

MaxPlainPieces == 3

\* Text no statement has a pattern for, but for a pair of dollar signs or
\* three <br> in a row: a word, a dollar sign, a <br> written in the source,
\* an \item outside a list, braces.
PlainPieces == {"x", "$", "<br>", "\\item", "{y}"}

PlainDocs ==
    {pre \o <<BeginDoc>> \o b \o <<EndDoc>> :
        pre \in {<<>>, <<"\\title{T}">>},
        b \in SeqsUpTo(PlainPieces, MaxPlainPieces) \ {<<>>}}
    \cup {<<"x">>}

InitPlain == \E d \in PlainDocs : Call(d, <<>>)

SpecPlain == InitPlain /\ [][Next]_vars

MaxTailPieces == 2

EnvKinds == {"equation", "itemize", "figure", "tabular"}

\* The opener of an environment of each kind.
Opener(k) ==
    CASE k = "equation" -> "\\begin{equation}"
      [] k = "itemize" -> "\\begin{itemize}"
      [] k = "figure" -> "\\begin{figure}"
      [] k = "tabular" -> BeginTabular

\* A complete environment of each kind.
Complete(k) ==
    CASE k = "equation" -> "\\begin{equation}e\\end{equation}"
      [] k = "itemize" -> "\\begin{itemize}\\item p\\end{itemize}"
      [] k = "figure" -> "\\begin{figure}\\caption{c}\\end{figure}"
      [] k = "tabular" -> "\\begin{tabular}{lc}a&b\\end{tabular}"

\* An opener without a closer, the text A after it, and before and after
\* them complete environments of the same kind and the text B.
OpenerDocsOf(k) ==
    {<<BeginDoc>> \o pre \o <<Opener(k), "A">> \o post \o <<EndDoc>> :
        pre \in {<<>>, <<"B">>},
        post \in SeqsUpTo({Complete(k), "B"}, MaxTailPieces)}

OpenerDocs == UNION {OpenerDocsOf(k) : k \in EnvKinds} \cup {<<BeginDoc, "A">>}

InitOpener == \E d \in OpenerDocs : Call(d, <<>>)

SpecOpener == InitOpener /\ [][Next]_vars

MaxEquations == 2

\* The contents of an equation environment: on the line of the opener, on
\* lines of their own, with blanks around them, with a backslash-space.
EquationContents == {"e", "\ne\n", " e ", "a\\ b", "\n a\\ b \n"}

EquationPieces ==
    {"\\begin{equation}" \o c \o "\\end{equation}" : c \in EquationContents} \cup {"x"}

EquationDocs ==
    {<<BeginDoc>> \o b \o <<EndDoc>> : b \in SeqsUpTo(EquationPieces, MaxEquations)}
    \cup {<<"x">>}

InitEquation == \E d \in EquationDocs : Call(d, <<>>)

SpecEquation == InitEquation /\ [][Next]_vars

MaxOrderPieces == 3

\* Headings of the two levels, bold, italic and text.
OrderPieces ==
    {"\\section{Intro}", "\\subsection{s}", "\\textbf{world}", "\\textit{i}", "Hello "}

OrderDocs ==
    {<<BeginDoc>> \o b \o <<EndDoc>> : b \in SeqsUpTo(OrderPieces, MaxOrderPieces)}
    \cup {<<"Hello ">>}

InitOrder == \E d \in OrderDocs : Call(d, <<>>)

SpecOrder == InitOrder /\ [][Next]_vars

MaxTrailPieces == 2

\* Text that is neither a declaration nor part of the body: a package line
\* and a caption command.
TrailPieces == {"\\usepackage{p}", "\\caption{K}"}

TrailBodies ==
    { <<"x">>,
      <<"\\section{S}", "\n", "y">>,
      <<"\\begin{tabular}{lc}a&b\\end{tabular}">> }

\* A preamble of such text with or without a title, a body, and such text
\* after the end marker; and a source without a body.
TrailDocs ==
    {pre \o decl \o <<BeginDoc>> \o body \o <<EndDoc>> \o post :
        pre \in SeqsUpTo(TrailPieces, MaxTrailPieces),
        decl \in {<<>>, <<"\\title{T}">>},
        body \in TrailBodies,
        post \in SeqsUpTo(TrailPieces, MaxTrailPieces)}
    \cup {<<"x", "\\caption{K}">>}

InitTrail == \E d \in TrailDocs : Call(d, <<>>)

SpecTrail == InitTrail /\ [][Next]_vars

\* All the sources with a preamble, a body of constructs, figures or tables.
SpecAll == (InitMeta \/ InitBody \/ InitFigure \/ InitTable) /\ [][Next]_vars

(***************************************************************************)
(* fetchWithExponentialBackoff (src/ai.js, lines 11-40).  The machine      *)
(* stops at every await; fetch and response.text() are the environment.    *)
(***************************************************************************)

MaxRetries == 3

\* What fetch resolves with: Response.ok is true for a status of 200 to 299.
Responses ==
    { [status |-> 200, ok |-> TRUE],
      [status |-> 429, ok |-> FALSE],
      [status |-> 500, ok |-> FALSE] }

\* The number of the attempt under way: each fetch adds an entry to the log.
Attempt == Len(backoff.log)

RetryOn429Always(response, i, retries) == response.status = 429

\* Line 20: the condition of the retry after a rate limit.
RetryOn429(response, i, retries) == response.status = 429 /\ i < retries - 1

\* Line 12: the condition of the for loop; line 40: the function ends
\* without a return statement when it is false.
TestLoop ==
    /\ backoff.at = "loop"
    /\ backoff' =
        IF backoff.i < backoff.retries
        THEN [backoff EXCEPT !.at = "fetch"]
        ELSE [backoff EXCEPT !.at = "returned", !.returned = NoResponse]
    /\ UNCHANGED <<rendererVars, appVars>>

\* Lines 14-18: the fetch resolves with a response.
FetchResolves ==
    /\ backoff.at = "fetch"
    /\ \E r \in Responses :
        backoff' = [backoff EXCEPT
            !.at = "status",
            !.response = r,
            !.log = Append(@, [response |-> r, error |-> NoError])]
    /\ UNCHANGED <<rendererVars, appVars>>

\* Lines 14-18, 33: the fetch rejects, the catch clause receives the error.
FetchRejects ==
    /\ backoff.at = "fetch"
    /\ LET e == [attempt |-> Attempt + 1, of |-> "fetch"]
       IN  backoff' = [backoff EXCEPT
               !.at = "catch",
               !.error = e,
               !.log = Append(@, [response |-> NoResponse, error |-> e])]
    /\ UNCHANGED <<rendererVars, appVars>>

\* Lines 20-32: the response is retried, refused or returned.
CheckStatus ==
    /\ backoff.at = "status"
    /\ backoff' =
        IF RetryOn429(backoff.response, backoff.i, backoff.retries)
        THEN [backoff EXCEPT !.at = "delay"]
        ELSE IF ~backoff.response.ok
        THEN [backoff EXCEPT !.at = "text"]
        ELSE [backoff EXCEPT !.at = "returned", !.returned = backoff.response]
    /\ UNCHANGED <<rendererVars, appVars>>

\* Lines 28-29, 33: response.text() resolves and the error of the status is
\* thrown, or it rejects; the catch clause receives either.
ReadText ==
    /\ backoff.at = "text"
    /\ \E of \in {"status", "text"} :
        LET e == [attempt |-> Attempt, of |-> of]
        IN  backoff' = [backoff EXCEPT
                !.at = "catch",
                !.error = e,
                !.log = [@ EXCEPT ![Attempt].error = e]]
    /\ UNCHANGED <<rendererVars, appVars>>

\* Lines 34-36: the error of the last attempt is thrown, any other is logged.
Catch ==
    /\ backoff.at = "catch"
    /\ backoff' =
        IF backoff.i = backoff.retries - 1
        THEN [backoff EXCEPT !.at = "thrown"]
        ELSE [backoff EXCEPT !.at = "delay"]
    /\ UNCHANGED <<rendererVars, appVars>>

\* Lines 21-24 and 36-37, then i++ of line 12: the delay passes.
Delay ==
    /\ backoff.at = "delay"
    /\ backoff' = [backoff EXCEPT !.at = "loop", !.i = @ + 1]
    /\ UNCHANGED <<rendererVars, appVars>>

NextBackoff ==
    \/ TestLoop
    \/ FetchResolves
    \/ FetchRejects
    \/ CheckStatus
    \/ ReadText
    \/ Catch
    \/ Delay

\* The call fetchWithExponentialBackoff(apiUrl, payload, r): let i = 0.
InitBackoff ==
    /\ \E r \in 1..MaxRetries : backoff = [NoCall EXCEPT !.retries = r, !.at = "loop"]
    /\ NoRender
    /\ namespaceSealed = TRUE
    /\ variant = "app.js"
    /\ PageLoaded

SpecBackoff == InitBackoff /\ [][NextBackoff]_vars


(***************************************************************************)
(* The document handling of the app (src/app.js, src/firebase.js).  Every  *)
(* handler runs to its next await in one step; the write it awaits is      *)
(* queued in pending and its continuation runs when the write settles.     *)
(* Firestore acknowledges the writes of a client in the order they were    *)
(* made, shows a write to the listeners of the client at once, and         *)
(* delivers snapshots at any later time.                                   *)
(***************************************************************************)

MaxAuthChanges == 2
MaxRequests == 2

\* The files the app exists in.
Variants == {"app.js", "part_001", "part_002"}

\* app.js 13-43: DEFAULT_LATEX_CONTENT.
DefaultContent == "default"

\* What the editor holds after the user typed.
Typed == "typed"

\* What generateLatexWithAI resolves with.
Generated == "generated"

\* app.js 239 and 145: the texts put into the editor without a document.
SignInText == "Sign in to start creating documents."
ClickNewText == "Click \"New Document\" to begin."

Ids(list) == {list[k].id : k \in 1..Len(list)}

\* firebase.js 237-242: the documents of a snapshot, most recently updated
\* first.
RECURSIVE SortByUpdate(_, _)
SortByUpdate(u, ids) ==
    IF ids = {} THEN <<>>
    ELSE LET newest == CHOOSE d \in ids : \A e \in ids :
                 firestore[<<u, d>>].updatedAt >= firestore[<<u, e>>].updatedAt
         IN  <<[id |-> newest, content |-> firestore[<<u, newest>>].content]>>
             \o SortByUpdate(u, ids \ {newest})

\* firebase.js 235-243: the snapshot of the collection of user u.
Snapshot(u) == SortByUpdate(u, {d \in DocIds : firestore[<<u, d>>].exists})

\* A setDoc or deleteDoc made now by the signed-in user; ok tells whether
\* Firestore will accept it, by and intended record the handler that made it
\* and the document that handler was working on.
Write(op, id, content, ok, by, intended) ==
    [op |-> op, user |-> userId, id |-> id, content |-> content,
     updatedAt |-> clock + 1, ok |-> ok, by |-> by, intended |-> intended]

\* The documents once the write w is made.
Written(w) ==
    IF ~w.ok THEN firestore
    ELSE [firestore EXCEPT ![<<w.user, w.id>>] =
            IF w.op = "delete" THEN Absent
            ELSE [exists |-> TRUE, content |-> w.content, updatedAt |-> w.updatedAt]]

\* The listeners owed a snapshot once w is made, d being those owed one
\* before.
Notified(w, d) ==
    IF ~w.ok THEN d
    ELSE d \cup {l.id : l \in {x \in listeners : x.user = w.user}}

\* The write is made and awaited.
Await(w, d) ==
    /\ clock < MaxWrites
    /\ pending' = Append(pending, w)
    /\ firestore' = Written(w)
    /\ due' = Notified(w, d)
    /\ clock' = clock + 1

\* No write is made.
NoWrite(d) ==
    /\ due' = d
    /\ UNCHANGED <<pending, firestore, clock>>

\* firebase.js 137-152: saveDocument gets as far as setDoc; getDocumentRef
\* throws into the catch clause without a user.
Saves == isAuthReady /\ currentDocumentId # JsNull /\ userId # JsNull

\* firebase.js 136-153: saveDocument(latexContent) up to its await.
SaveDocument(latexContent, ok, by, intended, d) ==
    /\ IF Saves
       THEN Await(Write("save", currentDocumentId, latexContent, ok, by, intended), d)
       ELSE NoWrite(d)
    /\ lastContent' = IF Saves /\ ok THEN latexContent ELSE lastContent

\* app.js 113-117 and firebase.js 169-178: createNewDocument(name) up to the
\* await of setDoc; the id of the new document is generated by doc().
CreateNewDocument(ok, d) ==
    IF isAuthReady /\ userId # JsNull
    THEN LET id == "d" \o ToString(clock + 1)
         IN  Await(Write("create", id, DefaultContent, ok, "new", id), d)
    ELSE NoWrite(d)

\* app.js 48-53: loadDocument(doc).  FB is the namespace object of
\* firebase.js (app.js 1): the assignment of line 49 throws TypeError where
\* the namespace is sealed, as in a module loaded by the browser, and the
\* function ends there.
LoadDocument(document) ==
    IF namespaceSealed
    THEN UNCHANGED <<currentDocumentId, currentDocumentContent, latexEditor,
                     preview, shown, lastContent>>
    ELSE /\ currentDocumentId' = document.id
         /\ currentDocumentContent' = document.content
         /\ latexEditor' = document.content
         /\ preview' = document.content
         /\ shown' = document.id
         /\ lastContent' = document.content

\* Without a listener l the listeners ls.
Unsubscribed(ls, l) == {x \in ls : x.id # l}

\* firebase.js 92-96 and app.js 206-243, 175-179: the auth observer is
\* called with a user or with null.  part_001 (line 268) drops the function
\* listenForProjects returns; app.js (179) and part_002 (243) keep it.
AuthChange(user) ==
    /\ authChanges < MaxAuthChanges
    /\ user # userId \/ ~isAuthReady
    /\ authChanges' = authChanges + 1
    /\ userId' = user
    /\ isAuthReady' = TRUE
    /\ IF user # JsNull
       THEN LET l == [id |-> "l" \o ToString(authChanges + 1), user |-> user]
                kept == IF unsubscribeDocuments # JsNull
                        THEN Unsubscribed(listeners, unsubscribeDocuments)
                        ELSE listeners
            IN  /\ listeners' = kept \cup {l}
                /\ due' = (due \cap {x.id : x \in kept}) \cup {l.id}
                /\ unsubscribeDocuments' =
                       IF variant = "part_001" THEN unsubscribeDocuments ELSE l.id
                /\ UNCHANGED <<documentList, latexEditor, preview, shown>>
       ELSE /\ IF unsubscribeDocuments # JsNull
               THEN /\ listeners' = Unsubscribed(listeners, unsubscribeDocuments)
                    /\ due' = due \ {unsubscribeDocuments}
                    /\ unsubscribeDocuments' = JsNull
                    /\ documentList' = <<>>
               ELSE UNCHANGED <<listeners, due, unsubscribeDocuments, documentList>>
            /\ latexEditor' = SignInText
            /\ preview' = ""
            /\ shown' = JsNull
    /\ UNCHANGED <<rendererVars, backoff, namespaceSealed, variant,
                   currentDocumentId, currentDocumentContent, isAILoading,
                   firestore, pending, requests, clock, lastContent>>

\* firebase.js 236-243 and app.js 179-198: a snapshot is delivered to the
\* listener l and its callback runs.
Deliver(l, ok) ==
    /\ l \in listeners
    /\ l.id \in due
    /\ LET documents == Snapshot(l.user)
       IN  /\ documentList' = documents
           /\ IF documents = <<>>
              THEN /\ CreateNewDocument(ok, due \ {l.id})
                   /\ UNCHANGED <<currentDocumentId, currentDocumentContent,
                                  latexEditor, preview, shown, lastContent>>
              ELSE /\ IF currentDocumentId = JsNull
                         \/ currentDocumentId \notin Ids(documents)
                      THEN LoadDocument(documents[1])
                      ELSE UNCHANGED <<currentDocumentId, currentDocumentContent,
                                       latexEditor, preview, shown, lastContent>>
                   /\ NoWrite(due \ {l.id})
    /\ UNCHANGED <<rendererVars, backoff, namespaceSealed, variant, userId,
                   isAuthReady, isAILoading, unsubscribeDocuments, listeners,
                   requests, authChanges>>

\* ui.js 61 and app.js 48-53: the user clicks a document of the list.
ClickDocument(k) ==
    /\ userId # JsNull
    /\ k \in 1..Len(documentList)
    /\ LoadDocument(documentList[k])
    /\ UNCHANGED <<rendererVars, backoff, namespaceSealed, variant, userId,
                   isAuthReady, documentList, isAILoading, unsubscribeDocuments,
                   firestore, listeners, due, pending, requests, clock,
                   authChanges>>

\* app.js 68-71 and firebase.js 136-153: the user types and the oninput
\* handler of the editor saves and previews what the editor holds.
Keystroke(ok) ==
    /\ userId # JsNull
    /\ latexEditor' = Typed
    /\ SaveDocument(Typed, ok, "key", shown, due)
    /\ preview' = Typed
    /\ UNCHANGED <<rendererVars, backoff, namespaceSealed, variant, userId,
                   isAuthReady, currentDocumentId, currentDocumentContent,
                   documentList, isAILoading, unsubscribeDocuments, listeners,
                   requests, authChanges, shown>>

\* app.js 258, 113-117 and firebase.js 169-178: the user clicks New Document.
ClickNew(ok) ==
    /\ userId # JsNull
    /\ CreateNewDocument(ok, due)
    /\ UNCHANGED <<rendererVars, backoff, namespaceSealed, variant, userId,
                   isAuthReady, currentDocumentId, currentDocumentContent,
                   latexEditor, preview, documentList, isAILoading,
                   unsubscribeDocuments, listeners, requests, authChanges, shown,
                   lastContent>>

\* app.js 137-140 and firebase.js 193-196: the user confirms the deletion
\* of a document of the list.
ConfirmDelete(id, ok) ==
    /\ userId # JsNull
    /\ id \in Ids(documentList)
    /\ Await(Write("delete", id, "", ok, "delete", id), due)
    /\ UNCHANGED <<rendererVars, backoff, namespaceSealed, variant, userId,
                   isAuthReady, currentDocumentId, currentDocumentContent,
                   latexEditor, preview, documentList, isAILoading,
                   unsubscribeDocuments, listeners, requests, authChanges, shown,
                   lastContent>>

BusyNever(loading) == FALSE

\* app.js 78: the guard of handleAIGenerate.
Busy(loading) == loading

\* app.js 249, 269-271 and 77-90: the user clicks Generate or a quick-insert
\* button; handleAIGenerate runs to its await.
ClickGenerate ==
    /\ userId # JsNull
    /\ Len(requests) < MaxRequests
    /\ IF Busy(isAILoading) \/ currentDocumentId = JsNull
       THEN UNCHANGED <<isAILoading, requests>>
       ELSE /\ isAILoading' = TRUE
            /\ requests' = Append(requests,
                   [for |-> currentDocumentId, content |-> currentDocumentContent])
    /\ UNCHANGED <<rendererVars, backoff, namespaceSealed, variant, userId,
                   isAuthReady, currentDocumentId, currentDocumentContent,
                   latexEditor, preview, documentList, unsubscribeDocuments,
                   firestore, listeners, due, pending, clock, authChanges, shown,
                   lastContent>>

\* Without its k-th element the sequence s.
Without(s, k) == SubSeq(s, 1, k - 1) \o SubSeq(s, k + 1, Len(s))

\* app.js 90-98, 104-107: the k-th request resolves; the editor, the save
\* and the preview get the new text, the finally clause clears the flag.
GenerateResolves(k, ok) ==
    /\ k \in 1..Len(requests)
    /\ requests' = Without(requests, k)
    /\ latexEditor' = Generated
    /\ SaveDocument(Generated, ok, "ai", requests[k].for, due)
    /\ preview' = Generated
    /\ isAILoading' = FALSE
    /\ UNCHANGED <<rendererVars, backoff, namespaceSealed, variant, userId,
                   isAuthReady, currentDocumentId, currentDocumentContent,
                   documentList, unsubscribeDocuments, listeners, authChanges,
                   shown>>

\* app.js 90, 100-107: the k-th request rejects.
GenerateRejects(k) ==
    /\ k \in 1..Len(requests)
    /\ requests' = Without(requests, k)
    /\ isAILoading' = FALSE
    /\ UNCHANGED <<rendererVars, backoff, namespaceSealed, variant, userId,
                   isAuthReady, currentDocumentId, currentDocumentContent,
                   latexEditor, preview, documentList, unsubscribeDocuments,
                   firestore, listeners, due, pending, clock, authChanges, shown,
                   lastContent>>

\* firebase.js 153-160: the setDoc of saveDocument settles.
SaveSettles ==
    /\ pending # <<>>
    /\ Head(pending).op = "save"
    /\ pending' = Tail(pending)
    /\ currentDocumentContent' =
           IF Head(pending).ok THEN Head(pending).content ELSE currentDocumentContent
    /\ UNCHANGED <<rendererVars, backoff, namespaceSealed, variant, userId,
                   isAuthReady, currentDocumentId, latexEditor, preview,
                   documentList, isAILoading, unsubscribeDocuments, firestore,
                   listeners, due, requests, clock, authChanges, shown,
                   lastContent>>

\* firebase.js 173-186 and app.js 117-121: the setDoc of createNewDocument
\* settles.
CreateSettles ==
    /\ pending # <<>>
    /\ Head(pending).op = "create"
    /\ pending' = Tail(pending)
    /\ IF Head(pending).ok
       THEN /\ currentDocumentId' = Head(pending).id
            /\ currentDocumentContent' = Head(pending).content
            /\ lastContent' = IF currentDocumentId = Head(pending).id
                              THEN lastContent
                              ELSE Head(pending).content
       ELSE UNCHANGED <<currentDocumentId, currentDocumentContent, lastContent>>
    /\ UNCHANGED <<rendererVars, backoff, namespaceSealed, variant, userId,
                   isAuthReady, latexEditor, preview, documentList, isAILoading,
                   unsubscribeDocuments, firestore, listeners, due, requests,
                   clock, authChanges, shown>>

\* firebase.js 196-201 and app.js 140-148: the deleteDoc settles; a rejection
\* is caught in deleteExistingDocument and promptDeleteDocument goes on.  The
\* assignment of line 143 throws where the namespace is sealed.
DeleteSettles ==
    /\ pending # <<>>
    /\ Head(pending).op = "delete"
    /\ pending' = Tail(pending)
    /\ IF currentDocumentId = Head(pending).id /\ ~namespaceSealed
       THEN /\ currentDocumentId' = JsNull
            /\ currentDocumentContent' = ""
            /\ latexEditor' = ClickNewText
            /\ preview' = ""
            /\ shown' = JsNull
            /\ lastContent' = ""
       ELSE UNCHANGED <<currentDocumentId, currentDocumentContent, latexEditor,
                        preview, shown, lastContent>>
    /\ UNCHANGED <<rendererVars, backoff, namespaceSealed, variant, userId,
                   isAuthReady, documentList, isAILoading, unsubscribeDocuments,
                   firestore, listeners, due, requests, clock, authChanges>>

NextApp ==
    \/ \E user \in Users \cup {JsNull} : AuthChange(user)
    \/ \E l \in listeners, ok \in BOOLEAN : Deliver(l, ok)
    \/ \E k \in 1..Len(documentList) : ClickDocument(k)
    \/ \E ok \in BOOLEAN : Keystroke(ok)
    \/ \E ok \in BOOLEAN : ClickNew(ok)
    \/ \E id \in DocIds, ok \in BOOLEAN : ConfirmDelete(id, ok)
    \/ ClickGenerate
    \/ \E k \in 1..Len(requests), ok \in BOOLEAN : GenerateResolves(k, ok)
    \/ \E k \in 1..Len(requests) : GenerateRejects(k)
    \/ SaveSettles
    \/ CreateSettles
    \/ DeleteSettles

\* The page of any variant as loaded, in a build of either kind.
InitApp ==
    /\ namespaceSealed \in BOOLEAN
    /\ variant \in Variants
    /\ PageLoaded
    /\ NoRender
    /\ backoff = NoCall

SpecApp == InitApp /\ [][NextApp]_vars


\* The page of src/app.js once the auth observer was called with a user who
\* has one document, written at time 1 in an earlier session: the listener
\* of app.js 179 is registered and its first snapshot is due.
InitSignedIn ==
    /\ namespaceSealed \in BOOLEAN
    /\ variant = "app.js"
    /\ userId = "u1"
    /\ isAuthReady = TRUE
    /\ authChanges = 1
    /\ listeners = {[id |-> "l1", user |-> "u1"]}
    /\ due = {"l1"}
    /\ unsubscribeDocuments = "l1"
    /\ currentDocumentId = JsNull
    /\ currentDocumentContent = ""
    /\ latexEditor = ""
    /\ preview = ""
    /\ documentList = <<>>
    /\ isAILoading = FALSE
    /\ firestore = [k \in Users \X DocIds |->
           IF k = <<"u1", "d1">>
           THEN [exists |-> TRUE, content |-> DefaultContent, updatedAt |-> 1]
           ELSE Absent]
    /\ pending = <<>>
    /\ requests = <<>>
    /\ clock = 1
    /\ shown = JsNull
    /\ lastContent = ""
    /\ NoRender
    /\ backoff = NoCall

SpecSignedIn == InitSignedIn /\ [][NextApp]_vars


(***************************************************************************)
(* The document shell.                                                     *)
(***************************************************************************)

\* The pieces that are a begin-document or an end-document marker, in any
\* spelling of upper and lower case.
IsBeginPiece(p) == p \in {BeginDoc, "\\BEGIN{Document}"}
IsEndPiece(p) == p \in {EndDoc, "\\End{DOCUMENT}"}

\* The source holds a begin marker and, later, an end marker.
HasBodyMarkers(d) ==
    \E i, j \in 1..Len(d) : i < j /\ IsBeginPiece(d[i]) /\ IsEndPiece(d[j])

\* The first begin marker and the first end marker after it.
FirstBegin(d) == CHOOSE i \in 1..Len(d) :
    IsBeginPiece(d[i]) /\ \A k \in 1..(i - 1) : ~IsBeginPiece(d[k])
FirstEndAfter(d, i) == CHOOSE j \in (i + 1)..Len(d) :
    IsEndPiece(d[j]) /\ \A k \in (i + 1)..(j - 1) : ~IsEndPiece(d[k])

\* C1: a source that does not hold a begin-document marker followed later
\* by an end-document marker renders to exactly the error fragment, whatever
\* the asset list is.
C1_NoMarkersGiveError ==
    (pc = "done" /\ ~HasBodyMarkers(doc)) => result = ErrorFragment

\* A call has returned on a source that holds both markers in the wrong
\* order, with a non-empty asset list.
C1_Witness ==
    /\ pc = "done"
    /\ ~HasBodyMarkers(doc)
    /\ \E i, j \in 1..Len(doc) : i < j /\ IsEndPiece(doc[i]) /\ IsBeginPiece(doc[j])
    /\ assets # <<>>
    /\ result = ErrorFragment

\* C2: a source that holds a begin-document marker followed later by an
\* end-document marker never renders to the error fragment, also when
\* nothing stands between the markers.
C2_MarkersNeverGiveError ==
    (pc = "done" /\ HasBodyMarkers(doc)) => result # ErrorFragment

(***************************************************************************)
(* The title block.                                                        *)
(***************************************************************************)

\* The declarations of the sources: a command with its argument on one line.
Declarations ==
    { [piece |-> "\\title{T}", cmd |-> "title", arg |-> "T"],
      [piece |-> "\\Title{U}", cmd |-> "title", arg |-> "U"],
      [piece |-> "\\title{B}", cmd |-> "title", arg |-> "B"],
      [piece |-> "\\author{A}", cmd |-> "author", arg |-> "A"],
      [piece |-> "\\date{D}", cmd |-> "date", arg |-> "D"],
      [piece |-> "\\date{E}", cmd |-> "date", arg |-> "E"] }

\* The positions of d that declare cmd.
DeclaredAt(d, cmd) ==
    {i \in 1..Len(d) : \E r \in Declarations : r.piece = d[i] /\ r.cmd = cmd}

Declared(d, cmd) == DeclaredAt(d, cmd) # {}

\* The arguments cmd is declared with anywhere in d.
ArgsOf(d, cmd) ==
    {r.arg : r \in {x \in Declarations : x.cmd = cmd /\ \E i \in 1..Len(d) : d[i] = x.piece}}

\* The argument of the first declaration of cmd in d.
FirstArg(d, cmd) ==
    LET i == CHOOSE k \in DeclaredAt(d, cmd) : \A n \in DeclaredAt(d, cmd) : k <= n
        r == CHOOSE x \in Declarations : x.piece = d[i]
    IN  r.arg

\* The element a declaration is rendered as.
Element(cmd, arg) ==
    CASE cmd = "title" -> "<h1>" \o arg \o "</h1>"
      [] cmd = "author" -> "<p class=\"text-center mb-1 text-gray-500\">By: " \o arg \o "</p>"
      [] cmd = "date" -> "<p class=\"text-center text-sm mb-6 text-gray-400\">" \o arg \o "</p>"

\* The element of the first declaration of cmd, nothing if there is none.
Rendered(d, cmd) == IF Declared(d, cmd) THEN Element(cmd, FirstArg(d, cmd)) ELSE ""

\* The pieces between the first begin marker and the first end marker after it.
BodyPieces(d) ==
    LET b == FirstBegin(d)
    IN  SubSeq(d, b + 1, FirstEndAfter(d, b) - 1)

\* What a body of text, line breaks, \maketitle and stray declarations is
\* expected to become: \maketitle vanishes, a line break becomes <br>, all
\* else stays.
RECURSIVE PlainBody(_)
PlainBody(ps) ==
    IF ps = <<>> THEN ""
    ELSE (CASE Head(ps) = "\\maketitle" -> ""
            [] Head(ps) = "\n" -> "<br>"
            [] OTHER -> Head(ps))
         \o PlainBody(Tail(ps))

RECURSIVE Count(_, _, _)
Count(s, p, from) ==
    LET i == IndexFrom(s, p, from)
    IN  IF i = 0 THEN 0 ELSE 1 + Count(s, p, i + Len(p))

\* The opening of the element of each command.
Opening(cmd) ==
    CASE cmd = "title" -> "<h1>"
      [] cmd = "author" -> "<p class=\"text-center mb-1 text-gray-500\">"
      [] cmd = "date" -> "<p class=\"text-center text-sm mb-6 text-gray-400\">"

C4_NeverThrows ==
    /\ pc # "thrown"
    /\ pc = "done" => ~Includes(result, TypeError)

\* A source without \title, \author and \date, with a figure that has
\* neither \includegraphics nor \caption, has been rendered.
C4_Witness ==
    /\ pc = "done"
    /\ result # ErrorFragment
    /\ titleBlock = ""
    /\ \E i \in 1..Len(doc) - 2 :
          doc[i] = "\\begin{figure}" /\ doc[i + 1] = "\n" /\ doc[i + 2] = "\\end{figure}"
    /\ Includes(result, "Figure Caption Missing")

\* C5: every call ends: the statements are run once each, in the order of
\* the function, and the last one returns.
C5_Terminates ==
    /\ <>(pc = "done")
    /\ [][Rank(pc') > Rank(pc)]_vars

\* A call has returned on a body of four line breaks: the one pass of the
\* cleanup left three breaks, and was not run again on them.
C5_Witness ==
    /\ pc = "done"
    /\ doc = <<BeginDoc, "\n\n", "\n\n", EndDoc>>
    /\ result = "<br><br><br>"

(***************************************************************************)
(* Figures.                                                                *)
(***************************************************************************)

\* The \includegraphics piece of the figure that starts before ps, "" if
\* the figure has none.
RECURSIVE GraphicsUntilEnd(_)
GraphicsUntilEnd(ps) ==
    IF ps = <<>> \/ Head(ps) = "\\end{figure}" THEN ""
    ELSE IF Head(ps) \in GraphicsPieces THEN Head(ps)
    ELSE GraphicsUntilEnd(Tail(ps))

\* The figures of a source in order, each as its \includegraphics piece.
RECURSIVE FiguresOf(_)
FiguresOf(ps) ==
    IF ps = <<>> THEN <<>>
    ELSE (IF Head(ps) = "\\begin{figure}" THEN <<GraphicsUntilEnd(Tail(ps))>> ELSE <<>>)
         \o FiguresOf(Tail(ps))

\* The file name a graphics piece names.
FileOf(g) == IF g = "\\includegraphics{Pic.png}" THEN "Pic.png" ELSE "pic.png"

\* The output of each figure: what follows the opening of its container.
FigureOutputs(out) == Tail(Split(out, "<div class=\"my-4\">"))

\* C8: a figure whose \includegraphics (with or without a bracketed size)
\* names a file F is rendered as an image element of the data of the asset
\* named exactly F if there is one, and else as a missing-asset marker that
\* holds F, without an image element.
C8_FigureAssetResolution ==
    (pc = "done" /\ HasBodyMarkers(doc)) =>
        LET figs == FiguresOf(doc)
            outs == FigureOutputs(result)
        IN  /\ Len(outs) = Len(figs)
            /\ \A i \in 1..Len(figs) : figs[i] # "" =>
                  LET named == {a \in 1..Len(assets) : assets[a].name = FileOf(figs[i])}
                  IN  IF named # {}
                      THEN /\ \E a \in named :
                                Includes(outs[i], "<img src=\"" \o assets[a].data \o "\"")
                           /\ ~Includes(outs[i], "IMAGE NOT FOUND")
                      ELSE /\ Includes(outs[i], "[IMAGE NOT FOUND: " \o FileOf(figs[i]) \o "]")
                           /\ ~Includes(outs[i], "<img")

\* Two figures have been rendered against the asset pic.png: the one that
\* names pic.png with a bracketed size as an image, the one that names
\* Pic.png as a missing asset.
C8_Witness ==
    /\ pc = "done"
    /\ assets = <<[name |-> "pic.png", data |-> "data:X"]>>
    /\ FiguresOf(doc) = <<"\\includegraphics[width=2cm]{pic.png}", "\\includegraphics{Pic.png}">>
    /\ Includes(FigureOutputs(result)[1], "<img src=\"data:X\"")
    /\ Includes(FigureOutputs(result)[2], "[IMAGE NOT FOUND: Pic.png]")

(***************************************************************************)
(* Tables.                                                                 *)
(***************************************************************************)

\* The rows of the table of a source, in order.
RECURSIVE RowsOf(_)
RowsOf(ps) ==
    IF ps = <<>> THEN <<>>
    ELSE (IF Head(ps) \in RowKinds THEN <<Head(ps)>> ELSE <<>>) \o RowsOf(Tail(ps))

\* A row of rule commands only, and a row of cells only.
RuleOnly(r) == r = "\\midrule"
CellsOnly(r) == r \in {"h&i", "a&b", "c"}

\* The rows left when the rule-only rows are discarded.
RECURSIVE Retained(_)
Retained(rows) ==
    IF rows = <<>> THEN <<>>
    ELSE (IF RuleOnly(Head(rows)) THEN <<>> ELSE <<Head(rows)>>) \o Retained(Tail(rows))

\* The text of the first cell of a row.
FirstCell(r) == CASE r = "a&b" -> "a" [] r = "c" -> "c" [] OTHER -> "h"

\* The rows of the rendered table: what follows each <tr>.
RowOutputs(out) == Tail(Split(out, "<tr>"))

\* C9: a table whose rows, the rule-only rows discarded, are n >= 1 rows of
\* cells is rendered with one header row, the first, and n - 1 data rows, in
\* the order of the source.
C9_HeaderThenDataRows ==
    (/\ pc = "done"
     /\ HasBodyMarkers(doc)
     /\ Retained(RowsOf(doc)) # <<>>
     /\ \A i \in 1..Len(Retained(RowsOf(doc))) : CellsOnly(Retained(RowsOf(doc))[i])) =>
        LET rows == Retained(RowsOf(doc))
            outs == RowOutputs(result)
        IN  /\ Count(result, "<thead><tr>", 1) = 1
            /\ Len(outs) = Len(rows)
            /\ Includes(outs[1], FirstCell(rows[1]) \o "</th>")
            /\ \A i \in 2..Len(rows) : Includes(outs[i], FirstCell(rows[i]) \o "</td>")

\* C10: a row is discarded only when it holds nothing but rule commands: a
\* row that holds cells is rendered, also when a rule command shares the row,
\* and its cell text is rendered without the rule command.
C10_OnlyRuleRowsDiscarded ==
    (pc = "done" /\ HasBodyMarkers(doc)) =>
        LET rows == Retained(RowsOf(doc))
        IN  /\ \A i \in 1..Len(rows) :
                  \/ Includes(result, FirstCell(rows[i]) \o "</th>")
                  \/ Includes(result, FirstCell(rows[i]) \o "</td>")
            /\ ~Includes(result, "\\toprule")

(***************************************************************************)
(* Table captions.                                                         *)
(***************************************************************************)

IsTablePiece(p) == At(p, 1, BeginTabular)
IsCaptionPiece(p) == At(p, 1, "\\caption{")

\* The positions of the tables of a source, in order.
TablesAt(d) == {i \in 1..Len(d) : IsTablePiece(d[i])}

\* The caption a table at piece i is to get: the argument of the first
\* \caption after it, "" if there is none.
CaptionAfter(d, i) ==
    LET later == {j \in (i + 1)..Len(d) : IsCaptionPiece(d[j])}
    IN  IF later = {} THEN ""
        ELSE Sub(d[Least(later)], Len("\\caption{") + 1, Len(d[Least(later)]) - 1)

\* The output of each table: what follows its <table>.
TableOutputs(out) == Tail(Split(out, "<table>"))

\* C11: the caption rendered with a table is the first \caption after the
\* table in the source; a table with no \caption after it gets none, also
\* when a \caption stands before it.
C11_CaptionAfterTable ==
    (pc = "done" /\ HasBodyMarkers(doc)) =>
        LET outs == TableOutputs(result)
        IN  /\ Len(outs) = Cardinality(TablesAt(doc))
            /\ \A i \in TablesAt(doc) :
                  LET k == Cardinality({j \in TablesAt(doc) : j <= i})
                      c == CaptionAfter(doc, i)
                  IN  IF c = "" THEN ~Includes(outs[k], "<caption>")
                      ELSE Includes(outs[k], "<caption>Table: " \o c \o "</caption>")

(***************************************************************************)
(* Lists.                                                                  *)
(***************************************************************************)

\* The \item entries of a source, in order.
RECURSIVE ItemsOf(_)
ItemsOf(ps) ==
    IF ps = <<>> THEN <<>>
    ELSE (IF Head(ps) \in ItemKinds THEN <<Head(ps)>> ELSE <<>>) \o ItemsOf(Tail(ps))

\* The text of an entry: what follows \item, on one line, without the white
\* space around it.
ItemText(p) == Trim(ReplaceAll(From(p, Len("\\item") + 1), "\n", "", 1))

\* The text of each list entry of the output.
RECURSIVE EntryTexts(_)
EntryTexts(segs) ==
    IF segs = <<>> THEN <<>>
    ELSE <<Sub(Head(segs), 1, IndexFrom(Head(segs), "</li>", 1) - 1)>>
         \o EntryTexts(Tail(segs))

ListEntries(out) == EntryTexts(Tail(Split(out, "<li class=\"list-disc ml-6\">")))

RECURSIVE ItemTexts(_)
ItemTexts(items) ==
    IF items = <<>> THEN <<>> ELSE <<ItemText(Head(items))>> \o ItemTexts(Tail(items))

RECURSIVE Trimmed(_)
Trimmed(texts) ==
    IF texts = <<>> THEN <<>> ELSE <<Trim(Head(texts))>> \o Trimmed(Tail(texts))

\* C12: an itemize environment with k >= 1 \item entries is rendered as a
\* list of exactly k entries, whose texts are the k entries of the source in
\* order; what stands before the first \item is not rendered.
C12_ItemsInOrder ==
    (pc = "done" /\ HasBodyMarkers(doc) /\ ItemsOf(doc) # <<>>) =>
        /\ Trimmed(ListEntries(result)) = ItemTexts(ItemsOf(doc))
        /\ ~Includes(result, "z")

\* A list of three entries with text before the first has been rendered.
C12_Witness ==
    /\ pc = "done"
    /\ \E i \in 1..Len(doc) : doc[i] = "z"
    /\ ItemsOf(doc) = <<"\\item p", "\\item s\nt", "\\item q r">>
    /\ ListEntries(result) = <<"p", "st", "q r">>

(***************************************************************************)
(* The final cleanup.                                                      *)
(***************************************************************************)

\* C13: after the cleanup no run of three or more <br> is left: every run
\* of n >= 3 has been collapsed to two.
C13_RunsCollapsed ==
    (pc = "done" /\ result # ErrorFragment) => ~Includes(result, "<br><br><br>")

\* C14: the cleanup applied to its own output returns that output.
C14_CleanupIdempotent ==
    pc = "return" => Cleanup(html) = html

(***************************************************************************)
(* Text without patterns.                                                  *)
(***************************************************************************)

\* How many of the pieces ps are the piece p.
PiecesEqual(ps, p) == Cardinality({i \in 1..Len(ps) : ps[i] = p})

\* A body in which no statement but the cleanup can find its pattern: no
\* command, no environment, no newline, at most one dollar sign.
NoPattern(ps) ==
    /\ ps # <<>>
    /\ \A i \in 1..Len(ps) : ps[i] \in PlainPieces
    /\ PiecesEqual(ps, "$") <= 1

RenderedAlone(k) ==
    CASE k = "equation" -> "<span class=\"math-block\">e</span>"
      [] k = "itemize" -> "<ul class=\"my-2\"><li class=\"list-disc ml-6\">p</li></ul>"
      [] k = "figure" -> "<p class=\"figure-caption text-center\">Figure: c</p>"
      [] k = "tabular" -> "<table><thead><tr><th>a</th><th>b</th></tr></thead>"

\* The kind of the opener of a source.
KindOf(d) == CHOOSE k \in EnvKinds : \E i \in 1..Len(d) : d[i] = Opener(k)

\* C16: an opener without a closer of its own passes through as raw text,
\* and so does the text after it; a complete environment of the same kind
\* that follows is rendered as it is on its own.
C16_OpenerPassesThrough ==
    (/\ pc = "done"
     /\ HasBodyMarkers(doc)
     /\ \E k \in EnvKinds, i \in 1..Len(doc) : doc[i] = Opener(k)) =>
        /\ Includes(result, Opener(KindOf(doc)))
        /\ Includes(result, "A")
        /\ Count(result, "B", 1) = PiecesEqual(doc, "B")
        /\ Count(result, RenderedAlone(KindOf(doc)), 1)
              = PiecesEqual(doc, Complete(KindOf(doc)))

(***************************************************************************)
(* The order of the statements.                                            *)
(***************************************************************************)

\* C17: the newlines are turned into <br> only after the math, list, figure
\* and table statements: the text each of them is about to read holds no
\* <br> (the sources hold none).
C17_BreaksAfterExtractors ==
    pc \in {"inlinemath", "equation", "itemize", "figure", "tabular"} =>
        ~Includes(html, "<br>")

(***************************************************************************)
(* Equations.                                                              *)
(***************************************************************************)

\* The equation environments of a source, in order.
RECURSIVE EquationsOf(_)
EquationsOf(ps) ==
    IF ps = <<>> THEN <<>>
    ELSE (IF Head(ps) \in EquationPieces \ {"x"} THEN <<Head(ps)>> ELSE <<>>)
         \o EquationsOf(Tail(ps))

\* The text an equation environment is to show: its content without the
\* white space around it and without backslash-space.
EquationText(p) == IF Includes(p, "a\\ b") THEN "ab" ELSE "e"

RECURSIVE EquationTexts(_)
EquationTexts(ps) ==
    IF ps = <<>> THEN <<>> ELSE <<EquationText(Head(ps))>> \o EquationTexts(Tail(ps))

\* The text of each math block of the output.
RECURSIVE BlockTexts(_)
BlockTexts(segs) ==
    IF segs = <<>> THEN <<>>
    ELSE <<Sub(Head(segs), 1, IndexFrom(Head(segs), "</span>", 1) - 1)>>
         \o BlockTexts(Tail(segs))

MathBlocks(out) == BlockTexts(Tail(Split(out, "<span class=\"math-block\">")))

\* C18: the math block of every equation environment holds the content of
\* the environment without the white space around it, the newlines after
\* \begin{equation} and before \end{equation} included, and without
\* backslash-space.
C18_EquationTrimmed ==
    (pc = "done" /\ HasBodyMarkers(doc) /\ BodyPieces(doc) # <<>>) =>
        MathBlocks(result) = EquationTexts(EquationsOf(doc))

(***************************************************************************)
(* The variants of the function.                                           *)
(***************************************************************************)

\* C19: for a source without a body every variant of the function in the
\* repository returns the same error fragment, byte for byte.
C19_SameErrorFragment ==
    (pc = "done" /\ ~HasBodyMarkers(doc)) =>
        /\ ErrorReturnUtils(latex) = result
        /\ ErrorReturn003(latex) = result
        /\ ErrorReturn005(latex) = result

(***************************************************************************)
(* Order of the output.                                                    *)
(***************************************************************************)

\* The element each command of a body is to become; text stays.
ElementOf(p) ==
    CASE p = "\\section{Intro}" -> "<h3>Intro</h3>"
      [] p = "\\subsection{s}" -> "<h4>s</h4>"
      [] p = "\\textbf{world}" -> "<strong>world</strong>"
      [] p = "\\textit{i}" -> "<em>i</em>"
      [] OTHER -> p

RECURSIVE ElementsOf(_)
ElementsOf(ps) ==
    IF ps = <<>> THEN "" ELSE ElementOf(Head(ps)) \o ElementsOf(Tail(ps))

\* C20: a body of \section, \subsection, \textbf, \textit and text on one
\* line is returned with every command replaced in place by its element, in
\* the order of the body, and nothing else added.
C20_OrderPreserved ==
    (pc = "done" /\ HasBodyMarkers(doc) /\ BodyPieces(doc) # <<>>) =>
        result = ElementsOf(BodyPieces(doc))

\* \section{Intro}Hello \textbf{world} has been rendered as a heading, the
\* text and a bold element.
C20_Witness ==
    /\ pc = "done"
    /\ doc = <<BeginDoc, "\\section{Intro}", "Hello ", "\\textbf{world}", EndDoc>>
    /\ result = "<h3>Intro</h3>Hello <strong>world</strong>"

(***************************************************************************)
(* Table markup.                                                           *)
(***************************************************************************)

\* C21: the markup of a table is well-formed: </tbody> is emitted only if
\* <tbody> was opened, and <thead> exactly when a row is rendered, also for
\* a table whose rows are all discarded.
C21_TableWellFormed ==
    (pc = "done" /\ HasBodyMarkers(doc)) =>
        /\ Count(result, "</tbody>", 1) = Count(result, "<tbody>", 1)
        /\ Count(result, "<thead>", 1) = Count(result, "</thead>", 1)
        /\ (Count(result, "<thead>", 1) = 1) <=> (Count(result, "<tr>", 1) > 0)

\* The declarations of d before its body, the markers and the body between
\* them: d without its other preamble text and without what follows the end
\* marker.
DeclarationsAndBody(d) ==
    LET b == FirstBegin(d)
        IsDeclaration(p) == \E r \in Declarations : r.piece = p
    IN  SelectSeq(SubSeq(d, 1, b - 1), IsDeclaration)
        \o SubSeq(d, b, FirstEndAfter(d, b))

\* C22: the output depends only on the declarations and on the body: a
\* source renders as the source made of its declarations and its body
\* alone, whatever other text stands in the preamble or after the end
\* marker.
C22_OnlyDeclarationsAndBody ==
    (pc = "done" /\ HasBodyMarkers(doc)) =>
        result = Render(Join(DeclarationsAndBody(doc)), assets)

(***************************************************************************)
(* The retry loop.                                                         *)
(***************************************************************************)

C24_OneRequestInFlight ==
    /\ Len(requests) <= 1
    /\ isAILoading <=> requests # <<>>

\* A second request is pending after the first one resolved and the user
\* typed again.
C24_Witness ==
    /\ Len(requests) = 1
    /\ isAILoading
    /\ latexEditor = Typed
    /\ userId # JsNull
    /\ \E d \in DocIds : firestore[<<userId, d>>].content = Generated

\* C25: the text a request to the AI resolves with is saved only to the
\* document that was active when the request was issued: every save made by
\* handleAIGenerate goes to the document its request was made for.
C25_SavedToRequestingDocument ==
    \A k \in 1..Len(pending) :
        (pending[k].by = "ai" /\ pending[k].ok) =>
            pending[k].id = pending[k].intended

\* Nothing is awaited and no snapshot is owed.
Settled == pending = <<>> /\ requests = <<>> /\ due = {}

\* C26: once a creation has settled and the list was delivered, the text in
\* the editor is that of the active document: the new document was loaded,
\* also when another document was active and listed before.
C26_EditorShowsActiveDocument ==
    (Settled /\ userId # JsNull /\ currentDocumentId # JsNull) =>
        shown = currentDocumentId

\* C27: in every variant at most one list listener is active at any time,
\* and signed out there is none and the cached list is empty.
C27_OneListener ==
    /\ Cardinality(listeners) <= 1
    /\ (isAuthReady /\ userId = JsNull) => (listeners = {} /\ documentList = <<>>)

\* What the callback of the list listener leaves behind.
Delivered ==
    \A l \in listeners :
        (l.id \in due /\ \E ok \in BOOLEAN : Deliver(l, ok)) =>
            LET documents == Snapshot(l.user)
            IN  IF documents = <<>>
                THEN /\ Len(pending') = Len(pending) + 1
                     /\ pending'[Len(pending')].op = "create"
                     /\ UNCHANGED <<currentDocumentId, latexEditor, shown>>
                ELSE /\ currentDocumentId' \in Ids(documents)
                     /\ currentDocumentId \notin Ids(documents) =>
                            currentDocumentId' = documents[1].id

\* C28: a delivery of a list with documents leaves a document of that list
\* active, the first one if none of the list was active before; a delivery
\* of an empty list creates a document and loads none.
C28_ActiveAfterDelivery == [][Delivered]_vars

C30_CacheIsActiveContent ==
    ((\A k \in 1..Len(pending) : pending[k].op # "save")
     /\ currentDocumentId # JsNull) =>
        currentDocumentContent = lastContent

====
